---- MODULE Spec2Model ----
(***************************************************************************)
(* State-machine model of build.py, the build driver of unicorn.js.        *)
(*                                                                         *)
(* Strings are sequences of character codes, so that sorted(), join() and  *)
(* the f-string concatenations are computed as Python computes them.       *)
(* The file system (vendored tree, patch files, build directories, output  *)
(* artifacts, constants file) and the tools on PATH are state; the exit    *)
(* codes of the invoked commands are chosen by the environment.            *)
(***************************************************************************)
EXTENDS Integers, Sequences, FiniteSets, TLC

\* ------------------------------------------------------------------------
\* Bounds of the exploration
\* ------------------------------------------------------------------------
\* longest list of architecture tokens in the runs over the whole catalog
MaxTargets == 2
\* number of invocations of the script in one behaviour
MaxRuns == 2
\* number of patch files that may be missing from patch/
MaxMissing == 1
\* longest upstream constant file, in lines, in the runs over file contents
MaxLines == 2

\* ------------------------------------------------------------------------
\* Strings
\* ------------------------------------------------------------------------
x86 == <<120,56,54>>
arm == <<97,114,109>>
aarch64 == <<97,97,114,99,104,54,52>>
riscv == <<114,105,115,99,118>>
mips == <<109,105,112,115>>
sparc == <<115,112,97,114,99>>
m68k == <<109,54,56,107>>
ppc == <<112,112,99>>
s390x == <<115,51,57,48,120>>
tricore == <<116,114,105,99,111,114,101>>
\* two tokens that are not architectures of the catalog
avr == <<97,118,114>>
z80 == <<122,56,48>>

Hyphen == <<45>>

SUPPORTED_ARCHES ==
    {x86, arm, aarch64, riscv, mips, sparc, m68k, ppc, s390x, tricore}

\* Python's str < str: lexicographic on code points, a proper prefix first
RECURSIVE StrLess(_, _)
StrLess(a, b) ==
    IF b = <<>> THEN FALSE
    ELSE IF a = <<>> THEN TRUE
    ELSE IF Head(a) # Head(b) THEN Head(a) < Head(b)
    ELSE StrLess(Tail(a), Tail(b))

\* insert s in the sorted list l, after the elements equal to it
RECURSIVE Insert(_, _)
Insert(s, l) ==
    IF l = <<>> THEN <<s>>
    ELSE IF StrLess(s, Head(l)) THEN <<s>> \o l
    ELSE <<Head(l)>> \o Insert(s, Tail(l))

\* sorted(list): every element of the list is kept, repeated ones included
RECURSIVE Sorted(_)
Sorted(l) ==
    IF l = <<>> THEN <<>>
    ELSE Insert(l[Len(l)], Sorted(SubSeq(l, 1, Len(l) - 1)))

\* sorted(set): the elements of the set, each once, in increasing order
RECURSIVE SortedSet(_)
SortedSet(S) ==
    IF S = {} THEN <<>>
    ELSE LET m == CHOOSE e \in S : \A o \in S \ {e} : StrLess(e, o)
         IN  <<m>> \o SortedSet(S \ {m})

\* sep.join(l)
RECURSIVE Join(_, _)
Join(l, sep) ==
    IF l = <<>> THEN <<>>
    ELSE IF Len(l) = 1 THEN l[1]
    ELSE l[1] \o sep \o Join(Tail(l), sep)

Range(l) == {l[i] : i \in 1..Len(l)}

\* ------------------------------------------------------------------------
\* validate_targets and suffix_for
\* ------------------------------------------------------------------------
UnknownTargets_FirstOnly(ts) ==
    LET unknown == SortedSet(Range(ts) \ SUPPORTED_ARCHES)
    IN  IF unknown = <<>> THEN <<>> ELSE <<unknown[1]>>

\* the list `unknown` of validate_targets; it raises ValueError iff the
\* list is not empty
UnknownTargets(ts) == SortedSet(Range(ts) \ SUPPORTED_ARCHES)

suffix_for(ts) ==
    IF ts = <<>> THEN <<>> ELSE Hyphen \o Join(Sorted(ts), Hyphen)

\* ------------------------------------------------------------------------
\* generate_constants
\* ------------------------------------------------------------------------
BindingsDir == <<98,105,110,100,105,110,103,115,47,112,121,116,104,111,110,47,117,110,105,99,111,114,110,47>>
ConstPy == <<95,99,111,110,115,116,46,112,121>>

\* the names arm64, arm, m68k, mips, ppc, riscv, s390x, sparc, tricore, x86,
\* unicorn of the upstream files, in list order
ConstNames ==
    << <<97,114,109,54,52>>, <<97,114,109>>, <<109,54,56,107>>,
       <<109,105,112,115>>, <<112,112,99>>, <<114,105,115,99,118>>,
       <<115,51,57,48,120>>, <<115,112,97,114,99>>,
       <<116,114,105,99,111,114,101>>, <<120,56,54>>,
       <<117,110,105,99,111,114,110>> >>

\* the relative paths bindings/python/unicorn/<name>_const.py
CONSTANT_FILES ==
    [i \in 1..Len(ConstNames) |-> BindingsDir \o ConstNames[i] \o ConstPy]

\* "// Auto-generated from Unicorn Python bindings."
HeaderLine == <<47,47,32,65,117,116,111,45,103,101,110,101,114,97,116,101,100,32,102,114,111,109,32,85,110,105,99,111,114,110,32,80,121,116,104,111,110,32,98,105,110,100,105,110,103,115,46>>
\* "// Source: "
SourcePrefix == <<47,47,32,83,111,117,114,99,101,58,32>>
\* "UC_", "uc." and "#"
UcUpper == <<85,67,95>>
UcLower == <<117,99,46>>
Hash == <<35>>

\* the characters str.strip() removes
IsSpace(c) == c \in {9, 10, 11, 12, 13, 28, 29, 30, 31, 32, 133, 160}

RECURSIVE LStrip(_)
LStrip(s) ==
    IF s # <<>> /\ IsSpace(Head(s)) THEN LStrip(Tail(s)) ELSE s

RECURSIVE RStrip(_)
RStrip(s) ==
    IF s # <<>> /\ IsSpace(s[Len(s)])
    THEN RStrip(SubSeq(s, 1, Len(s) - 1)) ELSE s

Strip(s) == RStrip(LStrip(s))

StartsWith(s, p) == Len(s) >= Len(p) /\ SubSeq(s, 1, Len(p)) = p

RECURSIVE ConstLines_NoStrip(_)
ConstLines_NoStrip(ls) ==
    IF ls = <<>> THEN <<>>
    ELSE IF StartsWith(Head(ls), UcUpper)
    THEN <<UcLower \o SubSeq(Head(ls), 4, Len(Head(ls)))>>
         \o ConstLines_NoStrip(Tail(ls))
    ELSE ConstLines_NoStrip(Tail(ls))

\* the lines written for the lines of one upstream file (lines 153-158)
RECURSIVE ConstLines(_)
ConstLines(ls) ==
    IF ls = <<>> THEN <<>>
    ELSE LET stripped == Strip(Head(ls))
         IN  IF stripped = <<>> \/ StartsWith(stripped, Hash)
             THEN ConstLines(Tail(ls))
             ELSE IF StartsWith(stripped, UcUpper)
             THEN <<UcLower \o SubSeq(stripped, 4, Len(stripped))>>
                  \o ConstLines(Tail(ls))
             ELSE ConstLines(Tail(ls))

\* an upstream file that does not exist, and one with the lines ls
NoFile == [exists |-> FALSE, lines |-> <<>>]
FileOf(ls) == [exists |-> TRUE, lines |-> ls]

\* the lines written for the upstream files i..11 (lines 147-159); up[i]
\* is the file CONSTANT_FILES[i] of the vendored tree

RECURSIVE ConstBlocks(_, _)
ConstBlocks(up, i) ==
    IF i > Len(CONSTANT_FILES) THEN <<>>
    ELSE IF ~up[i].exists THEN ConstBlocks(up, i + 1)
    ELSE <<SourcePrefix \o CONSTANT_FILES[i]>> \o ConstLines(up[i].lines)
         \o << <<>> >> \o ConstBlocks(up, i + 1)

\* the content of src/unicorn-constants.js after generate_constants
generate_constants(up) == <<HeaderLine>> \o ConstBlocks(up, 1)

\* ------------------------------------------------------------------------
\* The world of the script
\* ------------------------------------------------------------------------
\* the patch files of patch/, in list order
UNICORN_PATCHES ==
    <<"unicorn-cmakelists-emscripten.patch",
      "unicorn-qemu-configure-emscripten.patch",
      "unicorn-qemu-int128-emscripten.patch",
      "unicorn-qemu-timer-emscripten.patch">>

Patches == 1..Len(UNICORN_PATCHES)

\* what git says about a patch and the vendored tree: the forward check is
\* clean, the reverse check is clean, or neither is
Status == {"notapplied", "applied", "conflicting"}

\* git apply --check <patch>, return code 0 (lines 119-126)
ForwardCheckOk(t, p) == t[p] = "notapplied"

\* git apply --reverse --check <patch>, return code 0 (lines 130-137)
ReverseCheckOk(t, p) == t[p] = "applied"

\* the tree after git apply <patch> exited 0 (line 127)
GitApply(t, p) == [t EXCEPT ![p] = "applied"]

RECURSIVE ListsUpTo(_, _)
ListsUpTo(S, n) ==
    IF n = 0 THEN {<<>>}
    ELSE LET shorter == ListsUpTo(S, n - 1)
         IN  shorter \cup {Append(l, e) : l \in shorter, e \in S}

\* the token lists given to the build action: none, two architectures out
\* of order, one architecture twice, an unknown token, a known and an
\* unknown token
TargetLists ==
    {<<>>, <<x86, arm>>, <<arm, arm>>, <<avr>>, <<arm, avr>>}

\* sys.argv[1:] of the invocations explored: no action, an unknown action,
\* the patch action without tokens and with an unknown token, the build
\* action with each of the token lists
ArgvSet ==
    {<<>>, <<"help">>, <<"patch">>, <<"patch", avr>>}
    \cup {<<"build">> \o ts : ts \in TargetLists}

\* the suffixes of the build directories and output artifacts in the model
Suffixes == {suffix_for(Sorted(ts)) : ts \in TargetLists \cup {<<arm>>}}

\* the trees a fetch can leave: no patch of the list is applied to a fresh
\* checkout, and each fits it or not
FetchedTrees == [Patches -> {"notapplied", "conflicting"}]

\* a file of generation g: 0 was there before the first invocation, g > 0
\* was written by invocation g
NoArtifact == [exists |-> FALSE, gen |-> 0]
Artifact(g) == [exists |-> TRUE, gen |-> g]

\* a build directory unicorn/build-js<suffix>: the files in it by name
NoDir == [exists |-> FALSE, files |-> {}]
DirOf(fs) == [exists |-> TRUE, files |-> fs]
FileIn(n, g) == [name |-> n, gen |-> g]
HasFile_Always(d, n) == TRUE
HasFile(d, n) == \E f \in d.files : f.name = n

\* the upstream constant files of a populated vendored tree: arm_const.py
\* holds "# c", "UC_A = 1", "", "  UC_B = 2", "import x"; unicorn_const.py
\* holds "UC_C = 3" without a final newline; the others are absent
SampleUpstream ==
    [i \in 1..Len(CONSTANT_FILES) |->
        IF i = 2
        THEN FileOf(<< <<35,32,99,10>>, <<85,67,95,65,32,61,32,49,10>>,
                       <<10>>, <<32,32,85,67,95,66,32,61,32,50,10>>,
                       <<105,109,112,111,114,116,32,120,10>> >>)
        ELSE IF i = Len(CONSTANT_FILES)
        THEN FileOf(<< <<85,67,95,67,32,61,32,51>> >>)
        ELSE NoFile]

NoUpstream == [i \in 1..Len(CONSTANT_FILES) |-> NoFile]

\* "old", a constants file left by something else
OldConstants == FileOf(<< <<111,108,100>> >>)

BuildStages_ValidateLate ==
    <<"ResolveDeps", "Patch", "ExtractConstants", "Validate",
      "NativeBuild", "Link">>

BuildStages_ConstantsFirst ==
    <<"Validate", "ResolveDeps", "ExtractConstants", "Patch",
      "NativeBuild", "Link">>

\* the stages of the build action, in the order build() calls them
BuildStages ==
    <<"Validate", "ResolveDeps", "Patch", "ExtractConstants",
      "NativeBuild", "Link">>

PatchStages_Validated ==
    <<"Validate", "ResolveDeps", "Patch", "ExtractConstants">>

PatchStages_Builds ==
    <<"ResolveDeps", "Patch", "ExtractConstants", "NativeBuild", "Link">>

\* the stages of the patch action, in the order main() calls them
PatchStages == <<"ResolveDeps", "Patch", "ExtractConstants">>

\* the actions main() knows, and the stages each of them runs
Recognized(a) == a \in {"patch", "build"}
StagesOf(a) == IF a = "patch" THEN PatchStages ELSE BuildStages

PatchDecision_NoReverse(fwd, rev) == IF fwd THEN "apply" ELSE "fail"

PatchDecision_ApplyBlind(fwd, rev) == IF rev THEN "skip" ELSE "apply"

PatchDecision_NeverApplies(fwd, rev) ==
    IF fwd \/ rev THEN "skip" ELSE "fail"

\* what apply_emscripten_patches() does with a patch whose forward check
\* gave fwd and whose reverse check would give rev (lines 126-140)
PatchDecision(fwd, rev) ==
    IF fwd THEN "apply" ELSE IF rev THEN "skip" ELSE "fail"

VARIABLES
    pc,            \* where the script is: "start", a stage, a later step
                   \* of a stage ("configure", "compile", "cleanup"), "exited"
    argv,          \* sys.argv[1:]
    action,        \* sys.argv[1] once main() has read it
    targets,       \* sorted(sys.argv[2:]) once main() has read it
    exitCode,      \* <<>> while running, <<code>> once main() returned
    err,           \* the exception main() caught, if any
    pi,            \* index of the patch the loop of the Patch stage is at
    archOption,    \* <<value>> of -DUNICORN_ARCH= given to cmake, or <<>>
    patchFiles,    \* the patches whose file exists in patch/
    unicornExists, \* unicorn/ exists
    sources,       \* unicorn/ holds the vendored sources
    tree,          \* status of each patch against the vendored sources
    upstream,      \* the upstream constant files of the vendored sources
    constantsFile, \* src/unicorn-constants.js
    dirs,          \* the build directories unicorn/build-js<suffix>
    outs,          \* src/libunicorn<suffix>.out.js and .out.wasm
    log,           \* commands and file operations of this invocation
    stages,        \* stages entered in this invocation, in order
    completed,     \* stages that returned normally in this invocation
    runs,          \* number of the current invocation
    prev,          \* what the previous invocation left
    atStart,       \* the files as they were when this invocation began
    treeStart,     \* tree when the Patch stage of this invocation began
    dirStart       \* dirs when the NativeBuild stage of this invocation began

vars ==
    <<pc, argv, action, targets, exitCode, err, pi, archOption, patchFiles,
      unicornExists, sources, tree, upstream, constantsFile, dirs, outs,
      log, stages, completed, runs, prev, atStart, treeStart, dirStart>>

world == <<patchFiles, unicornExists, sources, tree, upstream,
           constantsFile, dirs, outs>>

NoErr == [exc |-> "none", what |-> "", patch |-> 0, unknown |-> <<>>]
Err(e, w, p, u) == [exc |-> e, what |-> w, patch |-> p, unknown |-> u]

Ev(o, a) == [op |-> o, arg |-> a]
IsApply(e) == e.op = "apply"

NoPrev == [ran |-> FALSE, patchOk |-> FALSE, applied |-> 0,
           exitCode |-> <<>>, tree |-> [p \in Patches |-> "conflicting"]]

Files ==
    [constantsFile |-> constantsFile, dirs |-> dirs, outs |-> outs,
     unicornExists |-> unicornExists, sources |-> sources, tree |-> tree]

\* list(UNICORN_DIR.iterdir()) is empty
UnicornEmpty_Never == FALSE
UnicornEmpty == ~sources /\ \A s \in DOMAIN dirs : ~dirs[s].exists

Init ==
    /\ pc = "start"
    /\ argv \in ArgvSet
    /\ action = ""
    /\ targets = <<>>
    /\ exitCode = <<>>
    /\ err = NoErr
    /\ pi = 1
    /\ archOption = <<>>
    /\ patchFiles \in {S \in SUBSET Patches : Cardinality(Patches \ S) <= MaxMissing}
    /\ \E stale \in BOOLEAN :
        /\ constantsFile = IF stale THEN OldConstants ELSE NoFile
        /\ outs = [s \in Suffixes |->
                     IF stale THEN [js |-> Artifact(0), wasm |-> Artifact(0)]
                     ELSE [js |-> NoArtifact, wasm |-> NoArtifact]]
        /\ \/ /\ unicornExists \in BOOLEAN
              /\ sources = FALSE
              /\ tree = [p \in Patches |-> "conflicting"]
              /\ upstream = NoUpstream
              /\ dirs = [s \in Suffixes |-> NoDir]
           \/ /\ unicornExists = TRUE
              /\ sources = TRUE
              /\ tree \in [Patches -> Status]
              /\ upstream = SampleUpstream
              /\ dirs = [s \in Suffixes |->
                           IF stale
                           THEN DirOf({FileIn("libunicorn.a", 0),
                                       FileIn("CMakeCache.txt", 0)})
                           ELSE NoDir]
    /\ log = <<>>
    /\ stages = <<>>
    /\ completed = <<>>
    /\ runs = 1
    /\ prev = NoPrev
    /\ atStart = Files
    /\ treeStart = tree
    /\ dirStart = dirs

\* main() returns code: the process exits
Return(code, e) ==
    /\ pc' = "exited"
    /\ exitCode' = <<code>>
    /\ err' = e

Raise_ReturnsZero(e) == Return(0, e)

\* an exception reaches the except clause of main() (lines 275-277)
Raise(e) == Return(1, e)

\* a stage is entered
Enter(st) == stages' = Append(stages, st)

\* a stage returns normally: the next call of build() or main() starts, or
\* main() returns 0 after the last one (lines 268 and 271)
Complete(st) ==
    /\ completed' = Append(completed, st)
    /\ LET seq == StagesOf(action)
           i == CHOOSE k \in 1..Len(seq) : seq[k] = st
       IN  IF i = Len(seq)
           THEN Return(0, NoErr)
           ELSE pc' = seq[i + 1] /\ UNCHANGED <<exitCode, err>>

\* a stage ends with the exception e
Abort(e) == Raise(e) /\ UNCHANGED completed

\* main(), lines 254-274: read the command line and pick the action
Main ==
    /\ pc = "start"
    /\ IF Len(argv) < 1
       THEN /\ Return(1, NoErr)
            /\ log' = Append(log, Ev("usage", 0))
            /\ UNCHANGED <<action, targets>>
       ELSE /\ action' = argv[1]
            /\ targets' = Sorted(Tail(argv))
            /\ IF Recognized(argv[1])
               THEN /\ pc' = StagesOf(argv[1])[1]
                    /\ UNCHANGED <<exitCode, err, log>>
               ELSE /\ Return(1, NoErr)
                    /\ log' = Append(log, Ev("usage", 0))
    /\ UNCHANGED <<argv, pi, archOption, world, stages, completed, runs,
                   prev, atStart, treeStart, dirStart>>

\* validate_targets(targets), lines 102-105, called at line 239
Validate ==
    /\ pc = "Validate"
    /\ Enter("Validate")
    /\ LET unknown == UnknownTargets(targets)
       IN  IF unknown # <<>>
           THEN Abort(Err("ValueError", "unsupported", 0, unknown))
           ELSE Complete("Validate")
    /\ UNCHANGED <<argv, action, targets, pi, archOption, world, log, runs,
                   prev, atStart, treeStart, dirStart>>

\* ensure_submodule(), lines 97-99
EnsureSubmodule ==
    /\ pc = "ResolveDeps"
    /\ Enter("ResolveDeps")
    /\ IF ~unicornExists \/ UnicornEmpty
       THEN /\ log' = Append(log, Ev("fetch", 0))
            /\ \E rc \in {0, 1} :
                IF rc = 0
                THEN /\ unicornExists' = TRUE
                     /\ sources' = TRUE
                     /\ tree' \in FetchedTrees
                     /\ upstream' = SampleUpstream
                     /\ Complete("ResolveDeps")
                ELSE /\ Abort(Err("CalledProcessError", "fetch", 0, <<>>))
                     /\ UNCHANGED <<unicornExists, sources, tree, upstream>>
       ELSE /\ Complete("ResolveDeps")
            /\ UNCHANGED <<log, unicornExists, sources, tree, upstream>>
    /\ UNCHANGED <<argv, action, targets, pi, archOption, patchFiles,
                   constantsFile, dirs, outs, runs, prev, atStart, treeStart,
                   dirStart>>

\* the loop of apply_emscripten_patches() goes on to the next patch, or
\* the function returns after the last one
NextPatch ==
    IF pi = Len(UNICORN_PATCHES)
    THEN Complete("Patch") /\ UNCHANGED pi
    ELSE pi' = pi + 1 /\ UNCHANGED <<pc, exitCode, err, completed>>

\* one iteration of the loop of apply_emscripten_patches(), lines 115-140
PatchStep ==
    /\ pc = "Patch"
    /\ IF pi = 1
       THEN Enter("Patch") /\ treeStart' = tree
       ELSE UNCHANGED <<stages, treeStart>>
    /\ IF pi \notin patchFiles
       THEN /\ Abort(Err("RuntimeError", "patch_missing", pi, <<>>))
            /\ UNCHANGED <<tree, log, pi>>
       ELSE LET decision == PatchDecision(ForwardCheckOk(tree, pi),
                                          ReverseCheckOk(tree, pi))
            IN  IF decision = "apply"
                THEN /\ log' = log \o <<Ev("check", pi), Ev("apply", pi)>>
                     /\ \E rc \in {0, 1} :
                         IF rc = 0 /\ ForwardCheckOk(tree, pi)
                         THEN /\ tree' = GitApply(tree, pi)
                              /\ NextPatch
                         ELSE /\ Abort(Err("CalledProcessError", "apply",
                                           pi, <<>>))
                              /\ UNCHANGED <<tree, pi>>
                ELSE IF decision = "skip"
                THEN /\ log' = log \o <<Ev("check", pi), Ev("rcheck", pi)>>
                     /\ NextPatch
                     /\ UNCHANGED tree
                ELSE /\ log' = log \o <<Ev("check", pi), Ev("rcheck", pi)>>
                     /\ Abort(Err("RuntimeError", "patch_failed", pi, <<>>))
                     /\ UNCHANGED <<tree, pi>>
    /\ UNCHANGED <<argv, action, targets, archOption, patchFiles,
                   unicornExists, sources, upstream, constantsFile, dirs,
                   outs, runs, prev, atStart, dirStart>>

GenerateConstants_Appends ==
    /\ pc = "ExtractConstants"
    /\ Enter("ExtractConstants")
    /\ constantsFile' =
          FileOf(constantsFile.lines \o generate_constants(upstream))
    /\ log' = Append(log, Ev("write_constants", 0))
    /\ Complete("ExtractConstants")
    /\ UNCHANGED <<argv, action, targets, pi, archOption, patchFiles,
                   unicornExists, sources, tree, upstream, dirs, outs, runs,
                   prev, atStart, treeStart, dirStart>>

\* generate_constants(), lines 143-159
GenerateConstants ==
    /\ pc = "ExtractConstants"
    /\ Enter("ExtractConstants")
    /\ constantsFile' = FileOf(generate_constants(upstream))
    /\ log' = Append(log, Ev("write_constants", 0))
    /\ Complete("ExtractConstants")
    /\ UNCHANGED <<argv, action, targets, pi, archOption, patchFiles,
                   unicornExists, sources, tree, upstream, dirs, outs, runs,
                   prev, atStart, treeStart, dirStart>>

\* the file operations of lines 166-168 on the build directory d
PrepareOps(d) ==
    (IF d.exists THEN <<Ev("rmtree", 0)>> ELSE <<>>) \o <<Ev("mkdir", 0)>>

NativePrepare_KeepsDir ==
    /\ pc = "NativeBuild"
    /\ Enter("NativeBuild")
    /\ dirStart' = dirs
    /\ LET build_suffix == suffix_for(targets)
       IN  /\ dirs' = [dirs EXCEPT ![build_suffix] = DirOf(@.files)]
           /\ unicornExists' = TRUE
           /\ \E found \in BOOLEAN :
                IF found
                THEN /\ pc' = "configure"
                     /\ log' = log \o <<Ev("mkdir", 0),
                                        Ev("which_emcmake", 1)>>
                     /\ UNCHANGED <<exitCode, err>>
                ELSE /\ Raise(Err("RuntimeError", "emcmake", 0, <<>>))
                     /\ log' = log \o <<Ev("mkdir", 0),
                                        Ev("which_emcmake", 0)>>
    /\ UNCHANGED <<argv, action, targets, pi, archOption, patchFiles,
                   sources, tree, upstream, constantsFile, outs, completed,
                   runs, prev, atStart, treeStart>>

\* configure_and_build_unicorn(), lines 163-172: the build directory is
\* deleted and created, then emcmake is looked up on PATH
NativePrepare ==
    /\ pc = "NativeBuild"
    /\ Enter("NativeBuild")
    /\ dirStart' = dirs
    /\ LET build_suffix == suffix_for(targets)
       IN  /\ dirs' = [dirs EXCEPT ![build_suffix] = DirOf({})]
           /\ unicornExists' = TRUE
           /\ \E found \in BOOLEAN :
                IF found
                THEN /\ pc' = "configure"
                     /\ log' = log \o PrepareOps(dirs[build_suffix])
                                   \o <<Ev("which_emcmake", 1)>>
                     /\ UNCHANGED <<exitCode, err>>
                ELSE /\ Raise(Err("RuntimeError", "emcmake", 0, <<>>))
                     /\ log' = log \o PrepareOps(dirs[build_suffix])
                                   \o <<Ev("which_emcmake", 0)>>
    /\ UNCHANGED <<argv, action, targets, pi, archOption, patchFiles,
                   sources, tree, upstream, constantsFile, outs, completed,
                   runs, prev, atStart, treeStart>>

Semicolon == <<59>>

\* the value of -DUNICORN_ARCH= on the cmake command line, lines 184-185
ArchOption(ts) ==
    IF ts # <<>> THEN <<Join(Sorted(ts), Semicolon)>> ELSE <<>>

\* configure_and_build_unicorn(), lines 174-194: emcmake cmake .. is run
\* in the build directory
Configure ==
    /\ pc = "configure"
    /\ archOption' = ArchOption(targets)
    /\ log' = Append(log, Ev("configure", 0))
    /\ \E rc \in {0, 1} :
        IF rc = 0
        THEN /\ dirs' = [dirs EXCEPT ![suffix_for(targets)].files =
                            @ \cup {FileIn("CMakeCache.txt", runs)}]
             /\ pc' = "compile"
             /\ UNCHANGED <<exitCode, err>>
        ELSE /\ Raise(Err("CalledProcessError", "configure", 0, <<>>))
             /\ UNCHANGED dirs
    /\ UNCHANGED <<argv, action, targets, pi, patchFiles, unicornExists,
                   sources, tree, upstream, constantsFile, outs, stages,
                   completed, runs, prev, atStart, treeStart, dirStart>>

\* configure_and_build_unicorn(), lines 195-204: cmake --build is run, then
\* the static archive must exist in the build directory
Compile ==
    /\ pc = "compile"
    /\ log' = Append(log, Ev("compile", 0))
    /\ \E rc \in {0, 1}, produced \in BOOLEAN :
        /\ dirs' = IF produced
                   THEN [dirs EXCEPT ![suffix_for(targets)].files =
                            @ \cup {FileIn("libunicorn.a", runs)}]
                   ELSE dirs
        /\ IF rc # 0
           THEN Abort(Err("CalledProcessError", "compile", 0, <<>>))
           ELSE IF ~HasFile(dirs'[suffix_for(targets)], "libunicorn.a")
           THEN Abort(Err("RuntimeError", "library_missing", 0, <<>>))
           ELSE Complete("NativeBuild")
    /\ UNCHANGED <<argv, action, targets, pi, archOption, patchFiles,
                   unicornExists, sources, tree, upstream, constantsFile,
                   outs, stages, runs, prev, atStart, treeStart, dirStart>>

\* link_to_javascript(), lines 207-233: emcc is looked up on PATH and run
Link ==
    /\ pc = "Link"
    /\ Enter("Link")
    /\ \E found \in BOOLEAN :
        IF ~found
        THEN /\ Raise(Err("RuntimeError", "emcc", 0, <<>>))
             /\ log' = Append(log, Ev("which_emcc", 0))
             /\ UNCHANGED outs
        ELSE /\ log' = log \o <<Ev("which_emcc", 1), Ev("link", 0)>>
             /\ \E rc \in {0, 1}, companion \in BOOLEAN :
                 IF rc # 0
                 THEN /\ Raise(Err("CalledProcessError", "link", 0, <<>>))
                      /\ UNCHANGED outs
                 ELSE /\ outs' = [outs EXCEPT ![suffix_for(targets)] =
                            [js |-> Artifact(runs),
                             wasm |-> IF companion THEN Artifact(runs)
                                      ELSE @.wasm]]
                      /\ pc' = "cleanup"
                      /\ UNCHANGED <<exitCode, err>>
    /\ UNCHANGED <<argv, action, targets, pi, archOption, patchFiles,
                   unicornExists, sources, tree, upstream, constantsFile,
                   dirs, completed, runs, prev, atStart, treeStart,
                   dirStart>>

Cleanup_KeepsCompanion ==
    /\ pc = "cleanup"
    /\ Complete("Link")
    /\ UNCHANGED <<argv, action, targets, pi, archOption, patchFiles,
                   unicornExists, sources, tree, upstream, constantsFile,
                   dirs, outs, log, stages, runs, prev, atStart, treeStart,
                   dirStart>>

\* link_to_javascript(), lines 234-235, then the function returns
Cleanup ==
    /\ pc = "cleanup"
    /\ LET out_suffix == suffix_for(targets)
       IN  IF outs[out_suffix].wasm.exists
           THEN /\ outs' = [outs EXCEPT ![out_suffix].wasm = NoArtifact]
                /\ log' = Append(log, Ev("unlink", 0))
           ELSE UNCHANGED <<outs, log>>
    /\ Complete("Link")
    /\ UNCHANGED <<argv, action, targets, pi, archOption, patchFiles,
                   unicornExists, sources, tree, upstream, constantsFile,
                   dirs, stages, runs, prev, atStart, treeStart, dirStart>>

\* the same command line is run again on the files the last run left
Rerun ==
    /\ pc = "exited"
    /\ runs < MaxRuns
    /\ runs' = runs + 1
    /\ prev' = [ran |-> TRUE,
                patchOk |-> "Patch" \in Range(completed),
                applied |-> Len(SelectSeq(log, IsApply)),
                exitCode |-> exitCode,
                tree |-> tree]
    /\ pc' = "start"
    /\ action' = ""
    /\ targets' = <<>>
    /\ exitCode' = <<>>
    /\ err' = NoErr
    /\ pi' = 1
    /\ archOption' = <<>>
    /\ log' = <<>>
    /\ stages' = <<>>
    /\ completed' = <<>>
    /\ atStart' = Files
    /\ treeStart' = tree
    /\ dirStart' = dirs
    /\ UNCHANGED <<argv, world>>

Next ==
    \/ Main
    \/ Validate
    \/ EnsureSubmodule
    \/ PatchStep
    \/ GenerateConstants
    \/ NativePrepare
    \/ Configure
    \/ Compile
    \/ Link
    \/ Cleanup
    \/ Rerun

Spec == Init /\ [][Next]_vars

\* The build action on every short list of tokens of the catalog and of
\* two unknown tokens, on a freshly fetched tree with nothing built yet.
ArgTokens == SUPPORTED_ARCHES \cup {avr, z80}
ArgLists == ListsUpTo(ArgTokens, MaxTargets)
\* the build directories and artifacts followed for the token list ts:
\* those of ts and those of the build of all architectures
ArgSuffixes(ts) == {suffix_for(Sorted(ts)), suffix_for(<<>>)}

InitArgs ==
    /\ pc = "start"
    /\ argv \in {<<"build">> \o ts : ts \in ArgLists}
    /\ action = ""
    /\ targets = <<>>
    /\ exitCode = <<>>
    /\ err = NoErr
    /\ pi = 1
    /\ archOption = <<>>
    /\ patchFiles = Patches
    /\ constantsFile = NoFile
    /\ outs = [s \in ArgSuffixes(Tail(argv)) |->
                 [js |-> NoArtifact, wasm |-> NoArtifact]]
    /\ unicornExists = TRUE
    /\ sources = TRUE
    /\ tree = [p \in Patches |-> "notapplied"]
    /\ upstream = SampleUpstream
    /\ dirs = [s \in ArgSuffixes(Tail(argv)) |-> NoDir]
    /\ log = <<>>
    /\ stages = <<>>
    /\ completed = <<>>
    /\ runs = 1
    /\ prev = NoPrev
    /\ atStart = Files
    /\ treeStart = tree
    /\ dirStart = dirs

SpecArgs == InitArgs /\ [][Next]_vars

\* The patch action on a patched tree, over the contents of the upstream
\* constant files: arm64_const.py and unicorn_const.py are absent or hold
\* one declaration, arm_const.py is absent or holds up to MaxLines lines.
\* The lines tried: "UC_A = 1", "  UC_B = 2 " (indented, space at the end),
\* "#UC_E = 5", "  " (blank), "x = UC_A", "UC_C = 3" without a newline,
\* "uc_d = 4".
LineChoices ==
    { <<85,67,95,65,32,61,32,49,10>>,
      <<32,32,85,67,95,66,32,61,32,50,32,10>>,
      <<35,85,67,95,69,32,61,32,53,10>>,
      <<32,32,10>>,
      <<120,32,61,32,85,67,95,65,10>>,
      <<85,67,95,67,32,61,32,51>>,
      <<117,99,95,100,32,61,32,52,10>> }

\* "UC_Z = 9"
OneDeclaration == FileOf(<< <<85,67,95,90,32,61,32,57,10>> >>)

UpstreamChoices ==
    {[i \in 1..Len(CONSTANT_FILES) |->
         IF i = 1 THEN a
         ELSE IF i = 2 THEN b
         ELSE IF i = Len(CONSTANT_FILES) THEN c
         ELSE NoFile] :
       a \in {NoFile, OneDeclaration},
       b \in {NoFile} \cup {FileOf(ls) : ls \in ListsUpTo(LineChoices, MaxLines)},
       c \in {NoFile, OneDeclaration}}

InitConst ==
    /\ pc = "start"
    /\ argv = <<"patch">>
    /\ action = ""
    /\ targets = <<>>
    /\ exitCode = <<>>
    /\ err = NoErr
    /\ pi = 1
    /\ archOption = <<>>
    /\ patchFiles = Patches
    /\ constantsFile \in {NoFile, OldConstants}
    /\ outs = [s \in {suffix_for(<<>>)} |->
                 [js |-> NoArtifact, wasm |-> NoArtifact]]
    /\ unicornExists = TRUE
    /\ sources = TRUE
    /\ tree = [p \in Patches |-> "applied"]
    /\ upstream \in UpstreamChoices
    /\ dirs = [s \in {suffix_for(<<>>)} |-> NoDir]
    /\ log = <<>>
    /\ stages = <<>>
    /\ completed = <<>>
    /\ runs = 1
    /\ prev = NoPrev
    /\ atStart = Files
    /\ treeStart = tree
    /\ dirStart = dirs

\* the steps of the patch action
NextConst ==
    \/ Main
    \/ EnsureSubmodule
    \/ PatchStep
    \/ GenerateConstants
    \/ Rerun

SpecConst == InitConst /\ [][NextConst]_vars

TypeOK ==
    /\ pc \in {"start", "Validate", "ResolveDeps", "Patch",
               "ExtractConstants", "NativeBuild", "configure", "compile",
               "Link", "cleanup", "exited"}
    /\ exitCode \in {<<>>, <<0>>, <<1>>}
    /\ pi \in Patches
    /\ patchFiles \subseteq Patches
    /\ tree \in [Patches -> Status]
    /\ runs \in 1..MaxRuns

\* ------------------------------------------------------------------------
\* Properties
\* ------------------------------------------------------------------------
IsPrefix(a, b) == Len(a) <= Len(b) /\ SubSeq(b, 1, Len(a)) = a

Ops == {log[i].op : i \in 1..Len(log)}

\* the command line asks for the action a
Asks(a) == Len(argv) >= 1 /\ argv[1] = a

\* some token of the command line is not an architecture of the catalog
HasUnknownToken == ~(Range(Tail(argv)) \subseteq SUPPORTED_ARCHES)

\* C1: a build whose token list holds a token outside the catalog ends
\* with exit code 1, having entered no stage but Validate, run no command
\* and changed no file: no fetch, no patch check or apply, no write of the
\* constants file, no build directory deleted or created, no configure,
\* compile or link.
C1_UnknownTokenStopsBuild ==
    (Asks("build") /\ HasUnknownToken) =>
        /\ pc \in {"start", "Validate", "exited"}
        /\ pc # "exited" => ENABLED (Main \/ Validate)
        /\ pc = "exited" => exitCode = <<1>> /\ err.what = "unsupported"
        /\ Range(stages) \subseteq {"Validate"}
        /\ log = <<>>
        /\ Files = atStart

C1_Witness ==
    /\ Asks("build") /\ HasUnknownToken
    /\ Range(Tail(argv)) \cap SUPPORTED_ARCHES # {}
    /\ pc = "exited" /\ exitCode = <<1>>

\* C2: when emcmake is missing the NativeBuild stage fails with the build
\* directories as they were when the stage began, and when emcc is missing
\* the Link stage fails with the output artifacts as they were; the error
\* names the tool.
C2_MissingToolChangesNothing ==
    /\ err.what = "emcmake" => dirs = dirStart
    /\ err.what = "emcc" => outs = atStart.outs

\* the events of the Patch stage in the log of this run
IsPatchOp(e) == e.op \in {"check", "rcheck", "apply"}
PatchLog == SelectSeq(log, IsPatchOp)

\* the log of a Patch stage in which patches 1..n are found already applied
RECURSIVE AlreadyAppliedLog(_)
AlreadyAppliedLog(n) ==
    IF n = 0 THEN <<>>
    ELSE AlreadyAppliedLog(n - 1) \o <<Ev("check", n), Ev("rcheck", n)>>

\* C3: when the Patch stage of the previous run succeeded, the Patch stage
\* of this run applies nothing (every patch fails the forward check and
\* passes the reverse check), leaves the tree as it was and does not fail.
C3_SecondPatchRunIsNoOp ==
    (prev.ran /\ prev.patchOk) =>
        /\ tree = prev.tree
        /\ "apply" \notin Ops
        /\ err.what \notin {"patch_missing", "patch_failed", "apply"}
        /\ IsPrefix(PatchLog, AlreadyAppliedLog(Len(UNICORN_PATCHES)))
        /\ ("Patch" \in Range(stages) /\ pc # "Patch") =>
              /\ "Patch" \in Range(completed)
              /\ PatchLog = AlreadyAppliedLog(Len(UNICORN_PATCHES))

C3_Witness ==
    /\ prev.ran /\ prev.patchOk /\ prev.applied > 0
    /\ "Patch" \in Range(completed)
    /\ PatchLog = AlreadyAppliedLog(Len(UNICORN_PATCHES))

\* the Patch stage failed on a missing patch file or on a conflicting patch
PatchStageGaveUp == err.what \in {"patch_missing", "patch_failed"}

\* C4 as stated: whenever the Patch stage fails on a missing patch file or
\* on a conflicting patch, the tree is as it was when the stage started.
C4_FailedPatchStageLeavesTree == PatchStageGaveUp => tree = treeStart

\* C4 as amended: when the Patch stage fails on patch p (file missing or
\* patch conflicting), p and the patches after it have not been applied
\* and are as they were when the stage started, while every patch before
\* p is applied: those whose forward check passed were applied for real
\* and are not rolled back.
C4_FailedPatchStageKeepsEarlier ==
    PatchStageGaveUp =>
        \A q \in Patches :
            /\ q >= err.patch =>
                  /\ tree[q] = treeStart[q]
                  /\ Ev("apply", q) \notin Range(log)
            /\ q < err.patch =>
                  /\ tree[q] = "applied"
                  /\ (Ev("apply", q) \in Range(log))
                        <=> (treeStart[q] = "notapplied")

C4_Witness ==
    /\ PatchStageGaveUp
    /\ err.patch > 1
    /\ tree # treeStart

\* the suffix the claim gives to a token list: "-" and the sorted distinct
\* tokens joined by "-", or nothing for the empty list
ClaimedSuffix(ts) ==
    IF ts = <<>> THEN <<>>
    ELSE Hyphen \o Join(SortedSet(Range(ts)), Hyphen)

\* C5: the build suffix is empty iff the token list is empty, otherwise it
\* is "-" followed by the sorted distinct tokens joined by "-": the build
\* directory a run prepares is the one named after the set of its tokens.
C5_SuffixOfTokenSet ==
    pc = "configure" =>
        /\ (suffix_for(targets) = <<>>) <=> (Tail(argv) = <<>>)
        /\ suffix_for(targets) = ClaimedSuffix(Tail(argv))
        /\ dirs[ClaimedSuffix(Tail(argv))] = DirOf({})

\* C6: validate_targets succeeds iff every token is one of the ten
\* architectures of the catalog; when it fails, the tokens named in the
\* error are exactly the tokens of the input that are not in the catalog,
\* each named once.
C6_ValidateNamesAllUnknown ==
    "Validate" \in Range(stages) =>
        LET given == Range(Tail(argv))
        IN  /\ Cardinality(SUPPORTED_ARCHES) = 10
            /\ ("Validate" \in Range(completed))
                  <=> (given \subseteq SUPPORTED_ARCHES)
            /\ (err.exc = "ValueError")
                  <=> ~(given \subseteq SUPPORTED_ARCHES)
            /\ err.exc = "ValueError" =>
                  /\ Range(err.unknown) = given \ SUPPORTED_ARCHES
                  /\ Len(err.unknown) = Cardinality(given \ SUPPORTED_ARCHES)

C6_Witness ==
    /\ err.exc = "ValueError"
    /\ Len(err.unknown) = 2
    /\ Len(argv) = 3

\* C7 as stated: the patch action with a token outside the catalog ends
\* with exit code 1 and fetches nothing, applies no patch and does not
\* write the constants file.
C7_PatchActionValidates ==
    (Asks("patch") /\ HasUnknownToken) =>
        /\ pc = "exited" => exitCode = <<1>>
        /\ Ops \cap {"fetch", "apply", "write_constants"} = {}

\* C7 as amended: the patch action never validates its tokens: whatever
\* they are, the Validate stage is not entered, the run never fails with
\* the unsupported-architecture error, and it exits 0 exactly when
\* ResolveDeps, Patch and ExtractConstants all succeeded.
C7_PatchActionIgnoresTokens ==
    Asks("patch") =>
        /\ "Validate" \notin Range(stages)
        /\ pc # "Validate"
        /\ err.exc # "ValueError"
        /\ pc = "exited" =>
              ((exitCode = <<0>>)
                  <=> (completed = <<"ResolveDeps", "Patch",
                                     "ExtractConstants">>))

C7_Witness ==
    /\ Asks("patch") /\ HasUnknownToken
    /\ pc = "exited" /\ exitCode = <<0>>
    /\ "write_constants" \in Ops

\* the order of the stages of the build action
ClaimedBuildOrder ==
    <<"Validate", "ResolveDeps", "Patch", "ExtractConstants",
      "NativeBuild", "Link">>

\* the stage a position of the script belongs to
StageAt(p) ==
    IF p \in {"configure", "compile"} THEN "NativeBuild"
    ELSE IF p = "cleanup" THEN "Link" ELSE p

\* C8: in a build the stages are entered in the order Validate,
\* ResolveDeps, Patch, ExtractConstants, NativeBuild, Link, each at most
\* once and only when all the stages before it have completed; once a
\* stage has failed the run is over: nothing has been entered after the
\* failed stage, and the failed stage has not completed.
C8_StagesInOrder ==
    Asks("build") =>
        /\ IsPrefix(stages, ClaimedBuildOrder)
        /\ IsPrefix(completed, stages)
        /\ Len(stages) <= Len(completed) + 1
        /\ pc \notin {"start", "exited"} =>
              StageAt(pc) = ClaimedBuildOrder[Len(completed) + 1]
        /\ err.exc # "none" =>
              /\ pc = "exited"
              /\ Len(stages) = Len(completed) + 1
        /\ exitCode = <<0>> => completed = ClaimedBuildOrder

C8_Witness ==
    /\ Asks("build")
    /\ pc = "exited"
    /\ err.what = "library_missing"
    /\ stages = SubSeq(ClaimedBuildOrder, 1, 5)
    /\ completed = SubSeq(ClaimedBuildOrder, 1, 4)

\* the stages the claim gives to an action
ClaimedStages(a) ==
    IF a = "patch" THEN <<"ResolveDeps", "Patch", "ExtractConstants">>
    ELSE ClaimedBuildOrder

\* C9: the exit code is 0 iff the action is patch or build and every stage
\* of that action succeeded, and it is 1 in every other run that ends: no
\* action or an unknown one (then no stage was entered), or any error.
C9_ExitCode ==
    pc = "exited" =>
        /\ exitCode \in {<<0>>, <<1>>}
        /\ (exitCode = <<0>>)
              <=> /\ Len(argv) >= 1
                  /\ argv[1] \in {"patch", "build"}
                  /\ completed = ClaimedStages(argv[1])
                  /\ err.exc = "none"
        /\ (Len(argv) = 0 \/ ~(argv[1] \in {"patch", "build"})) =>
              /\ stages = <<>>
              /\ log = <<Ev("usage", 0)>>
        /\ err.exc # "none" => exitCode = <<1>>

C9_Witness ==
    /\ pc = "exited"
    /\ exitCode = <<1>>
    /\ err.exc = "CalledProcessError"
    /\ err.what = "link"

\* C10: a run of the patch action never enters NativeBuild or Link and
\* creates, deletes or changes no build directory and no module artifact,
\* whether it succeeds or fails; when ResolveDeps, Patch and
\* ExtractConstants have all succeeded it exits 0.
C10_PatchActionBuildsNothing ==
    Asks("patch") =>
        /\ Range(stages) \cap {"NativeBuild", "Link"} = {}
        /\ pc \notin {"NativeBuild", "configure", "compile", "Link",
                      "cleanup"}
        /\ dirs = atStart.dirs
        /\ outs = atStart.outs
        /\ Ops \cap {"rmtree", "mkdir", "configure", "compile", "link",
                     "unlink"} = {}
        /\ completed = <<"ResolveDeps", "Patch", "ExtractConstants">> =>
              pc = "exited" /\ exitCode = <<0>>

C10_Witness ==
    /\ Asks("patch")
    /\ pc = "exited" /\ exitCode = <<0>>
    /\ \E s \in DOMAIN dirs : dirs[s].exists
    /\ "apply" \in Ops

\* the build directory and the output artifacts of this run's configuration
OwnDir == dirs[suffix_for(targets)]
OwnOut == outs[suffix_for(targets)]

\* C11: the Link stage is entered only when the static archive exists in
\* the build directory of this configuration; when configure and compile
\* both exited 0 and the archive is absent, the NativeBuild stage fails,
\* emcc is neither looked up nor run, and the run exits 1.
C11_LinkNeedsArchive ==
    /\ ("Link" \in Range(stages) \/ pc = "Link") =>
          \E f \in OwnDir.files : f.name = "libunicorn.a"
    /\ (/\ "compile" \in Ops
        /\ err.exc # "CalledProcessError"
        /\ pc \notin {"configure", "compile"}
        /\ ~(\E f \in OwnDir.files : f.name = "libunicorn.a")) =>
          /\ pc = "exited"
          /\ exitCode = <<1>>
          /\ err.what = "library_missing"
          /\ "NativeBuild" \notin Range(completed)
          /\ "Link" \notin Range(stages)
          /\ Ops \cap {"which_emcc", "link", "unlink"} = {}

C11_Witness ==
    /\ err.what = "library_missing"
    /\ Ops \cap {"configure", "compile"} = {"configure", "compile"}
    /\ \E f \in dirStart[suffix_for(targets)].files : f.name = "libunicorn.a"
    /\ exitCode = <<1>>

\* C12: a build for the architecture set S creates, deletes or changes
\* only the build directory and the output artifacts named with the suffix
\* of S, "-" and the sorted architectures of S joined by "-": every other
\* build directory and artifact is as it was when the run began.
C12_BuildTouchesOwnSuffixOnly ==
    Asks("build") =>
        \A s \in DOMAIN dirs :
            s # ClaimedSuffix(Tail(argv)) =>
                /\ dirs[s] = atStart.dirs[s]
                /\ outs[s] = atStart.outs[s]

\* C13: when a build has ended with exit code 0, the companion file
\* libunicorn<suffix>.out.wasm of its configuration does not exist, whether
\* it was there before or the link produced it; the file is deleted only
\* after the link command exited 0, so a run whose link failed, or that
\* found no emcc, leaves the companion file as it was.
C13_NoCompanionWhenDone ==
    /\ (Asks("build") /\ pc = "exited" /\ exitCode = <<0>>) =>
          /\ ~OwnOut.wasm.exists
          /\ OwnOut.js = Artifact(runs)
    /\ "unlink" \in Ops =>
          /\ log[Len(log)] = Ev("unlink", 0)
          /\ log[Len(log) - 1] = Ev("link", 0)
          /\ pc = "exited" /\ exitCode = <<0>>
          /\ atStart.outs[suffix_for(targets)].wasm.exists
                \/ OwnOut.js = Artifact(runs)
    /\ err.what \in {"link", "emcc"} =>
          /\ "unlink" \notin Ops
          /\ OwnOut.wasm = atStart.outs[suffix_for(targets)].wasm

C13_Witness ==
    /\ Asks("build") /\ pc = "exited" /\ exitCode = <<0>>
    /\ atStart.outs[suffix_for(targets)].wasm.exists
    /\ "unlink" \in Ops

\* a source line that, trimmed, starts with UC_
IsDeclaration(l) == StartsWith(Strip(l), UcUpper)

\* the declaration lines the claim gives for the source lines ls
ClaimedDeclarations(ls) ==
    LET kept == SelectSeq(ls, IsDeclaration)
    IN  [i \in 1..Len(kept) |->
            UcLower \o SubSeq(Strip(kept[i]), 4, Len(Strip(kept[i])))]

\* the blocks the claim gives for the upstream files 1..n
RECURSIVE ClaimedBlocks(_, _)
ClaimedBlocks(up, n) ==
    IF n = 0 THEN <<>>
    ELSE ClaimedBlocks(up, n - 1)
         \o (IF up[n].exists
             THEN <<SourcePrefix \o CONSTANT_FILES[n]>>
                  \o ClaimedDeclarations(up[n].lines) \o << <<>> >>
             ELSE <<>>)

\* C14: after the header line, the constants file holds one block per
\* upstream constant file that exists, in the order of CONSTANT_FILES, and
\* nothing for an absent file; a block is the provenance line, then one
\* line per source line that, trimmed, starts with UC_, in source order,
\* with UC_ replaced by uc. and the rest of the trimmed line unchanged,
\* then an empty line; blank lines, comments and other lines give nothing.
\* "UC_A = 1" gives "uc.A = 1" and "  UC_B = 2 " gives "uc.B = 2".
C14_ConstantsFileContent ==
    "ExtractConstants" \in Range(completed) =>
        /\ constantsFile.exists
        /\ constantsFile.lines
              = <<HeaderLine>> \o ClaimedBlocks(upstream, Len(CONSTANT_FILES))
        /\ err = NoErr
        /\ (upstream[2].exists /\ Len(upstream[2].lines) >= 1) =>
              LET first == upstream[2].lines[1]
                  at == IF upstream[1].exists THEN 5 ELSE 2
              IN  /\ first = <<85,67,95,65,32,61,32,49,10>> =>
                        constantsFile.lines[at + 1]
                            = <<117,99,46,65,32,61,32,49>>
                  /\ first = <<32,32,85,67,95,66,32,61,32,50,32,10>> =>
                        constantsFile.lines[at + 1]
                            = <<117,99,46,66,32,61,32,50>>
                  /\ first = <<35,85,67,95,69,32,61,32,53,10>> =>
                        constantsFile.lines[at + 1]
                            # <<117,99,46,69,32,61,32,53>>

C14_Witness ==
    /\ "ExtractConstants" \in Range(completed)
    /\ ~upstream[1].exists
    /\ upstream[2].exists
    /\ upstream[2].lines = << <<35,85,67,95,69,32,61,32,53,10>>,
                              <<32,32,85,67,95,66,32,61,32,50,32,10>> >>
    /\ upstream[Len(CONSTANT_FILES)].exists
    /\ Len(constantsFile.lines) = 7

\* "old", the line of a constants file left by something else
OldLine == <<111,108,100>>
IsHeader(l) == l = HeaderLine

\* C15: writing the constants file overwrites it: nothing of its earlier
\* content is left and the header line stands once; and with the upstream
\* files unchanged a further run leaves the file exactly as the run
\* before left it.
C15_ConstantsRewritten ==
    "ExtractConstants" \in Range(completed) =>
        /\ OldLine \notin Range(constantsFile.lines)
        /\ Len(SelectSeq(constantsFile.lines, IsHeader)) = 1
        /\ constantsFile.lines[1] = HeaderLine
        /\ prev.patchOk => constantsFile = atStart.constantsFile

C15_Witness ==
    /\ "ExtractConstants" \in Range(completed)
    /\ prev.patchOk
    /\ runs = 2
    /\ upstream[2].exists /\ Len(upstream[2].lines) = 2
    /\ constantsFile = atStart.constantsFile

IsCheck(e) == e.op = "check"

\* C16: the Patch stage checks the patches in list order, each once; patch
\* p is applied only right after its own forward check, and only when that
\* check was clean; the reverse check of p is run only right after p's
\* forward check failed; a patch that passes neither check is never
\* applied, and its two checks are the last patch commands of the run.
C16_ThreeWayCheckPerPatch ==
    /\ \A i \in 1..Len(PatchLog) :
          LET e == PatchLog[i]
          IN  /\ e.op = "check" =>
                    e.arg = Len(SelectSeq(SubSeq(PatchLog, 1, i), IsCheck))
              /\ e.op = "apply" =>
                    /\ i > 1
                    /\ PatchLog[i - 1] = Ev("check", e.arg)
                    /\ ForwardCheckOk(treeStart, e.arg)
              /\ e.op = "rcheck" =>
                    /\ i > 1
                    /\ PatchLog[i - 1] = Ev("check", e.arg)
                    /\ ~ForwardCheckOk(treeStart, e.arg)
    /\ \A p \in Patches :
          (Ev("check", p) \in Range(PatchLog)
             /\ ~ForwardCheckOk(treeStart, p)
             /\ ~ReverseCheckOk(treeStart, p)) =>
              /\ Ev("apply", p) \notin Range(PatchLog)
              /\ tree[p] = treeStart[p]
              /\ Len(PatchLog) >= 2
              /\ SubSeq(PatchLog, Len(PatchLog) - 1, Len(PatchLog))
                    = <<Ev("check", p), Ev("rcheck", p)>>
              /\ err = Err("RuntimeError", "patch_failed", p, <<>>)
              /\ "Patch" \notin Range(completed)

\* patch 1 was applied, patch 2 found already applied, patch 3 passes
\* neither check and ends the stage
C16_Witness ==
    /\ Len(UNICORN_PATCHES) >= 4
    /\ PatchLog = <<Ev("check", 1), Ev("apply", 1),
                    Ev("check", 2), Ev("rcheck", 2),
                    Ev("check", 3), Ev("rcheck", 3)>>
    /\ err.what = "patch_failed"
    /\ err.patch = 3
    /\ pc = "exited"

\* C17: when the configuration step is about to run, the build directory
\* of this configuration exists and is empty, whatever it held before;
\* so every file in it afterwards, and the archive that passed the
\* existence check and goes to the Link stage, was written by this run.
C17_ArchiveIsOfThisRun ==
    /\ pc = "configure" => (OwnDir.exists /\ OwnDir.files = {})
    /\ "NativeBuild" \in Range(stages) =>
          \A f \in OwnDir.files : f.gen = runs
    /\ ("NativeBuild" \in Range(completed) \/ "Link" \in Range(stages)) =>
          /\ FileIn("libunicorn.a", runs) \in OwnDir.files
          /\ \A f \in OwnDir.files : f.name = "libunicorn.a" => f.gen = runs
          /\ "compile" \in Ops

\* the directory held an archive of an earlier run, and this run reached
\* the Link stage
C17_Witness ==
    /\ "Link" \in Range(stages)
    /\ "rmtree" \in Ops
    /\ \E f \in dirStart[suffix_for(targets)].files :
          f.name = "libunicorn.a" /\ f.gen # runs
    /\ FileIn("libunicorn.a", runs) \in OwnDir.files

\* the vendored directory was absent or empty when the run began (nothing
\* touches it before ResolveDeps)
AbsentOrEmptyAtStart ==
    \/ ~atStart.unicornExists
    \/ /\ ~atStart.sources
       /\ \A s \in DOMAIN atStart.dirs : ~atStart.dirs[s].exists

\* C18: ResolveDeps runs the fetch command exactly when the vendored
\* directory is absent or empty; a fetch that exits non-zero ends the run
\* with exit code 1 before any patch is checked or applied; and the Patch
\* stage is entered only with the vendored directory present and non-empty.
C18_FetchIffAbsentOrEmpty ==
    /\ "ResolveDeps" \in Range(stages) =>
          ("fetch" \in Ops <=> AbsentOrEmptyAtStart)
    /\ "ResolveDeps" \notin Range(stages) => "fetch" \notin Ops
    /\ err.what = "fetch" =>
          /\ pc = "exited"
          /\ exitCode = <<1>>
          /\ Ops \cap {"check", "rcheck", "apply"} = {}
          /\ "Patch" \notin Range(stages)
          /\ "ResolveDeps" \notin Range(completed)
          /\ tree = atStart.tree
    /\ (pc = "Patch" \/ "Patch" \in Range(stages)) =>
          /\ unicornExists
          /\ sources \/ \E s \in DOMAIN dirs : dirs[s].exists

\* the directory was there but empty, and the fetch failed
C18_Witness ==
    /\ err.what = "fetch"
    /\ atStart.unicornExists
    /\ "fetch" \in Ops
    /\ exitCode = <<1>>

\* the architecture option the claim gives to a token list: none for the
\* empty list, else the sorted distinct tokens joined by ";"
ClaimedArchOption(ts) ==
    IF ts = <<>> THEN <<>>
    ELSE <<Join(SortedSet(Range(ts)), Semicolon)>>

\* C19: the configuration step gets an architecture option exactly when
\* the token list is not empty, and its value is the sorted set of the
\* selected architectures joined by ";", each architecture once.
C19_ArchOptionOfTokenSet ==
    "configure" \in Ops =>
        /\ archOption # <<>> <=> Tail(argv) # <<>>
        /\ archOption = ClaimedArchOption(Tail(argv))

\* the parts of C19 that do hold: the option is passed exactly when tokens
\* were given, and for tokens given once each it is the claimed value
C19_ArchOptionWithoutRepeats ==
    "configure" \in Ops =>
        /\ archOption # <<>> <=> Tail(argv) # <<>>
        /\ Cardinality(Range(Tail(argv))) = Len(Tail(argv)) =>
              archOption = ClaimedArchOption(Tail(argv))

====
